---------------------------- MODULE Spec2Model ----------------------------
(***************************************************************************)
(* Model of src/main.rs: a TCP acceptor that hands every accepted stream   *)
(* to a pool of worker tasks through a std mpsc channel whose receiver is  *)
(* shared behind a tokio Mutex, and the request handler the workers run.   *)
(*                                                                         *)
(* A byte / char is modelled by a one-symbol string; a buffer or a string  *)
(* of the program is a sequence of such symbols.  "NUL" is the zero byte,  *)
(* "xFF" a byte that is not valid UTF-8, "FFFD" the replacement char.      *)
(***************************************************************************)
EXTENDS Naturals, Sequences, FiniteSets, TLC

(***************************************************************************)
(* Bounds of the model.                                                    *)
(***************************************************************************)
\* size of the worker pool (the literal 16 of main.rs:20, scaled down)
NWorkers == 2
\* number of items the listener's incoming() iterator yields in a run
MaxConns == 3
\* largest number of executor threads of the tokio runtime
MaxThreads == 2
\* size of the read buffer (the literal 4096 of main.rs:44, scaled down)
BufSize == 14
\* rows the seeding loop inserts (the literal 10000 of main.rs:121, scaled
\* down)
SeedRows == 3
\* runs of the process (the first one and its restarts) in one behaviour
MaxRuns == 3
\* '&'-separated fragments of a query string handed to parse_query_string
MaxFrags == 2

Workers == 1..NWorkers
Conns == 1..MaxConns
NoWorker == 0
NoConn == 0

(***************************************************************************)
(* Strings of the program.                                                 *)
(***************************************************************************)
WhiteSpace == {" ", "TAB", "LF", "CR"}

RootPath == <<"/">>
GetPath == <<"/", "g", "e", "t">>
HealthPath == <<"/", "h", "e", "a", "l", "t", "h">>
IdKey == <<"i", "d">>

\* the rows of table users that the requests of the model can ask for
\* (new_conn names the row with id i+1 "value" + i)
Users == {[id |-> <<"5">>, name |-> "value4"]}

\* what a client may have written to its connection before the read
Requests ==
  { << >>,
    <<"G">>,
    <<"G", " ", "/">>,
    <<"G", " ", "/", " ", "H", "CR", "LF">>,
    <<"G", " ", "/", "?", "i", "d", "=", "5", " ", "H">>,
    <<"G", " ", "/", "g", "e", "t", " ", "H">>,
    <<"G", " ", "/", "g", "e", "t", "?", "i", "d", "=", "5", " ", "H">>,
    <<"G", " ", "/", "g", "e", "t", "?", "i", "d", "=", "9", " ", "H">>,
    <<"G", " ", "/", "g", "e", "t", "?", "n", "=", "5", " ", "H">>,
    <<"G", "LF", "/", "g", "e", "t", "?", "i", "d", "=", "5", " ", "H">>,
    <<"G", " ", "/", "h", "e", "a", "l", "t", "h", " ", "H">>,
    <<"xFF", " ", "/", " ">>,
    [i \in 1..(BufSize + 1) |-> " "] }

\* let mut buf = [0u8; 4096]; stream.read(&mut buf): at most BufSize bytes
\* are stored, the rest of the buffer keeps its zero bytes
ReadInto(data) ==
  [i \in 1..BufSize |-> IF i <= Len(data) THEN data[i] ELSE "NUL"]

\* String::from_utf8_lossy: an invalid byte becomes U+FFFD, nothing fails
FromUtf8Lossy(buf) ==
  [i \in 1..Len(buf) |-> IF buf[i] = "xFF" THEN "FFFD" ELSE buf[i]]

RECURSIVE SplitWsFrom(_, _, _, _)
SplitWsFrom(s, i, cur, out) ==
  IF i > Len(s)
  THEN IF cur = << >> THEN out ELSE Append(out, cur)
  ELSE IF s[i] \in WhiteSpace
       THEN SplitWsFrom(s, i + 1, << >>,
                        IF cur = << >> THEN out ELSE Append(out, cur))
       ELSE SplitWsFrom(s, i + 1, Append(cur, s[i]), out)

\* str::split_whitespace().collect(): the non-empty maximal runs of
\* non-whitespace chars, in order
SplitWhitespace(s) == SplitWsFrom(s, 1, << >>, << >>)

RECURSIVE SplitFrom(_, _, _, _, _)
SplitFrom(s, ch, i, cur, out) ==
  IF i > Len(s)
  THEN Append(out, cur)
  ELSE IF s[i] = ch
       THEN SplitFrom(s, ch, i + 1, << >>, Append(out, cur))
       ELSE SplitFrom(s, ch, i + 1, Append(cur, s[i]), out)

\* str::split(ch): the pieces between the occurrences of ch, empty pieces
\* included
Split(s, ch) == SplitFrom(s, ch, 1, << >>, << >>)

\* str::find(ch).unwrap_or(len), as a count of the chars before the match
FindOrLen(s, ch) ==
  IF \E i \in 1..Len(s) : s[i] = ch
  THEN (CHOOSE i \in 1..Len(s) :
          s[i] = ch /\ \A j \in 1..(i - 1) : s[j] # ch) - 1
  ELSE Len(s)

\* (variant) a route matched on the whole token, query suffix included
PathUntruncated(pt) == pt

\* &pt[..pt.find('?').unwrap_or(pt.len())]
PathOf(pt) == SubSeq(pt, 1, FindOrLen(pt, "?"))

\* str::lines().next().unwrap_or(""): the text before the first line feed,
\* without a carriage return that ends it
FirstLine(s) ==
  LET l == SubSeq(s, 1, FindOrLen(s, "LF"))
  IN  IF Len(l) > 0 /\ l[Len(l)] = "CR" THEN SubSeq(l, 1, Len(l) - 1) ELSE l

\* req_str.lines().next().unwrap_or("").split_whitespace().nth(1).unwrap_or("")
ReqParams(req_str) ==
  LET toks == SplitWhitespace(FirstLine(req_str))
  IN  IF Len(toks) >= 2 THEN toks[2] ELSE << >>

\* (variant) an insert that keeps the value a key already has
MapInsertKeepFirst(m, k, v) ==
  [x \in (DOMAIN m) \cup {k} |-> IF x \in DOMAIN m THEN m[x] ELSE v]

\* HashMap::insert
MapInsert(m, k, v) == [x \in (DOMAIN m) \cup {k} |-> IF x = k THEN v ELSE m[x]]

EmptyMap == [x \in {} |-> << >>]

RECURSIVE InsertParams(_, _, _)
InsertParams(params, frags, i) ==
  IF i > Len(frags)
  THEN params
  ELSE LET key_value == Split(frags[i], "=")
       IN  IF Len(key_value) >= 2
           THEN InsertParams(MapInsert(params, key_value[1], key_value[2]),
                             frags, i + 1)
           ELSE InsertParams(params, frags, i + 1)

\* fn parse_query_string
parse_query_string(query) ==
  LET pieces == Split(query, "?")
  IN  IF Len(pieces) >= 2
      THEN InsertParams(EmptyMap, Split(pieces[2], "&"), 1)
      ELSE EmptyMap

(***************************************************************************)
(* The responses handle_connection passes to send_response.                *)
(***************************************************************************)
Hola == [status |-> 200, body |-> "<html><body>Hola</body></html>"]
BadRequest == [status |-> 400, body |-> "<html><body>400 Bad Request</body></html>"]
Healthy == [status |-> 200, body |-> "Healthy"]
UnHealthy == [status |-> 500, body |-> "UnHealthy"]
UserFound(u) == [status |-> 200, body |-> <<"name - ", u.name, "id - ", u.id>>]

(***************************************************************************)
(* handle_connection from the successful read up to its first await (or    *)
(* its end): what the code does with the buffer it has read.               *)
(*   "return"  the logged early return of line 50-53                       *)
(*   "panic"   parts[1] indexes a one-element vector (line 55)             *)
(*   "respond" a branch that calls send_response at once                   *)
(*   "get" / "health"  a branch that first awaits the store                *)
(***************************************************************************)
\* (variant) a /get branch that binds an empty id and queries the store
\* when the request has no id parameter
DecodeLooksUpAnyway(buf) ==
  LET req_str == FromUtf8Lossy(buf)
      parts == SplitWhitespace(req_str)
  IN  IF Len(parts) < 1
      THEN [kind |-> "return"]
      ELSE IF Len(parts) < 2
      THEN [kind |-> "panic"]
      ELSE LET pt == parts[2]
               path == PathOf(pt)
           IN  IF Len(pt) = 0
               THEN [kind |-> "return"]
               ELSE IF path = RootPath
               THEN [kind |-> "respond", rsp |-> Hola]
               ELSE IF path = GetPath
               THEN LET params == parse_query_string(ReqParams(req_str))
                    IN  IF IdKey \in DOMAIN params
                        THEN [kind |-> "get", uid |-> params[IdKey]]
                        ELSE [kind |-> "get", uid |-> << >>]
               ELSE IF path = HealthPath
               THEN [kind |-> "health"]
               ELSE [kind |-> "respond", rsp |-> BadRequest]

Decode(buf) ==
  LET req_str == FromUtf8Lossy(buf)
      parts == SplitWhitespace(req_str)
  IN  IF Len(parts) < 1
      THEN [kind |-> "return"]
      ELSE IF Len(parts) < 2
      THEN [kind |-> "panic"]
      ELSE LET pt == parts[2]
               path == PathOf(pt)
           IN  IF Len(pt) = 0
               THEN [kind |-> "return"]
               ELSE IF path = RootPath
               THEN [kind |-> "respond", rsp |-> Hola]
               ELSE IF path = GetPath
               THEN LET params == parse_query_string(ReqParams(req_str))
                    IN  IF IdKey \in DOMAIN params
                        THEN [kind |-> "get", uid |-> params[IdKey]]
                        ELSE [kind |-> "respond", rsp |-> BadRequest]
               ELSE IF path = HealthPath
               THEN [kind |-> "health"]
               ELSE [kind |-> "respond", rsp |-> BadRequest]

\* what the arm of the store call passes to send_response.  kind: which
\* call ("store_get": the lookup of line 67, "store_health": the probe of
\* line 82); id: the bound id; fault: the store failed.  fetch_one is Err
\* when the store failed and when no row has the id
StoreAnswer(kind, id, fault) ==
  LET rows == {u \in Users : u.id = id}
  IN  IF kind = "store_get"
      THEN IF ~fault /\ rows # {}
           THEN UserFound(CHOOSE u \in rows : TRUE)
           ELSE BadRequest
      ELSE IF ~fault THEN Healthy ELSE UnHealthy

\* handle_connection taken on its own, as a function of the bytes the read
\* yields and of how the store answers: how it ends, what it passes to
\* send_response, and which store call it makes
handle_connection(data, fault) ==
  LET d == Decode(ReadInto(data))
  IN  IF d.kind = "return"
      THEN [end |-> "returned", resp |-> << >>, store |-> "none"]
      ELSE IF d.kind = "panic"
      THEN [end |-> "panicked", resp |-> << >>, store |-> "none"]
      ELSE IF d.kind = "respond"
      THEN [end |-> "returned", resp |-> <<d.rsp>>, store |-> "none"]
      ELSE IF d.kind = "get"
      THEN [end |-> "returned",
            resp |-> <<StoreAnswer("store_get", d.uid, fault)>>,
            store |-> "lookup"]
      ELSE [end |-> "returned",
            resp |-> <<StoreAnswer("store_health", << >>, fault)>>,
            store |-> "probe"]

(***************************************************************************)
(* State.                                                                  *)
(***************************************************************************)
VARIABLES
  nthreads,    \* executor threads of the runtime #[tokio::main] builds
  mainPc,      \* where main is: "startup" (line 12-18), "spawn" (line 20-26)
               \* or "accept" (line 28-38)
  spawned,     \* workers spawned so far
  nacc,        \* items taken from listener.incoming() so far
  conn,        \* per item of incoming(): what became of it
  queue,       \* the mpsc channel: streams sent and not yet received
  lock,        \* the worker holding the MutexGuard of rx, or NoWorker
  pc,          \* per worker task: where it is
  stream,      \* per worker: the stream its handle_connection owns
  buf,         \* per worker: the buffer its handle_connection has read
  uid,         \* per worker: the id parameter of the /get it is serving
  store,       \* the sqlite store behind "sqlite://sqlite1.db"
  boot,        \* the run of the process: where its startup is (line 12-15)
  fnArg,       \* the arguments of a call of a function taken on its own
  fnRes        \* what that call returned

\* the variables of the startup and of the calls taken on their own: the
\* accept / dispatch / handle pipeline leaves them alone
bootVars == <<store, boot>>
fnVars == <<fnArg, fnRes>>

vars == <<nthreads, mainPc, spawned, nacc, conn, queue, lock, pc, stream,
          buf, uid, store, boot, fnArg, fnRes>>

NoUid == <<"none">>
NoBuf == << >>

\* st: "none", "accept_err", "pending" (its enqueue task is spawned),
\*     "queued", "handling", "closed" (the stream is dropped), "lost" (the
\*     send failed)
\* delivered: handle_connection calls that received it
\* resp: the responses passed to send_response for it
\* dropped: the handler ended without a response
\* end: how its handler ended: "none", "returned", "panicked"
NewConn == [st |-> "none", delivered |-> 0, resp |-> << >>,
            dropped |-> FALSE, end |-> "none"]

\* the store file: whether it exists, whether it has table users, the rows
\* of users in insertion order (a row is the i of its name "value" + i; its
\* id is its place), and the run that created the file (0: an earlier one)
NoStore == [exists |-> FALSE, table |-> FALSE, rows |-> << >>, born |-> 0]

\* for i in 0..10000 { .. "value" + i .. }: what the whole loop inserts
SeededRows == [k \in 1..SeedRows |-> k - 1]

\* a run of the process at the first line of main.  pc: "bind", "exists",
\* "create", "connect", "table", "seed", "ready" (new_conn returned Ok and
\* main is past line 15), "aborted" (the process has panicked); is_empty
\* and i are the locals of new_conn; cause: the call whose failure aborted
\* the run
NewRun(n) == [run |-> n, pc |-> "bind", is_empty |-> FALSE, i |-> 0,
              cause |-> "none"]

\* the run the pipeline belongs to: the first one, on no store, started well
ReadyRun == [run |-> 1, pc |-> "ready", is_empty |-> TRUE, i |-> SeedRows,
             cause |-> "none"]

ReadyStore == [exists |-> TRUE, table |-> TRUE, rows |-> SeededRows,
               born |-> 1]

\* no call of a function on its own is under way
NoCall == [op |-> "none"]
NoRes == [done |-> FALSE]

Init ==
  /\ store = ReadyStore
  /\ boot = ReadyRun
  /\ fnArg = NoCall
  /\ fnRes = NoRes
  /\ nthreads \in 1..MaxThreads
  /\ mainPc = "spawn"
  /\ spawned = 0
  /\ nacc = 0
  /\ conn = [c \in Conns |-> NewConn]
  /\ queue = << >>
  /\ lock = NoWorker
  /\ pc = [w \in Workers |-> "unspawned"]
  /\ stream = [w \in Workers |-> NoConn]
  /\ buf = [w \in Workers |-> NoBuf]
  /\ uid = [w \in Workers |-> NoUid]

(***************************************************************************)
(* The runtime.  A task runs on an executor thread and keeps it until it   *)
(* suspends at an await; std's recv() and read() are blocking calls, not   *)
(* awaits, so the task inside one keeps its thread.  main itself runs on   *)
(* the thread that called block_on.                                        *)
(***************************************************************************)
OnThread == {w \in Workers : pc[w] \in {"recv", "read", "decode"}}

FreeThread == Cardinality(OnThread) < nthreads

(***************************************************************************)
(* main                                                                    *)
(***************************************************************************)
\* (variant) main goes on to the accept loop after the first spawn
MainSpawnEager ==
  /\ mainPc = "spawn"
  /\ spawned < NWorkers
  /\ spawned' = spawned + 1
  /\ pc' = [pc EXCEPT ![spawned + 1] = "loop"]
  /\ mainPc' = "accept"
  /\ UNCHANGED <<bootVars, fnVars, nthreads, nacc, conn, queue, lock, stream,
                 buf, uid>>

\* for _ in 0..16 { tokio::spawn(worker(..)) }
MainSpawn ==
  /\ mainPc = "spawn"
  /\ spawned < NWorkers
  /\ spawned' = spawned + 1
  /\ pc' = [pc EXCEPT ![spawned + 1] = "loop"]
  /\ mainPc' = IF spawned + 1 = NWorkers THEN "accept" ELSE "spawn"
  /\ UNCHANGED <<bootVars, fnVars, nthreads, nacc, conn, queue, lock, stream,
                 buf, uid>>

\* Ok(stream) => { let tx = tx.clone(); tokio::spawn(async move { .. }) }
AcceptOk ==
  /\ mainPc = "accept"
  /\ nacc < MaxConns
  /\ nacc' = nacc + 1
  /\ conn' = [conn EXCEPT ![nacc + 1].st = "pending"]
  /\ mainPc' = "accept"
  /\ UNCHANGED <<bootVars, fnVars, nthreads, spawned, queue, lock, pc,
                 stream, buf, uid>>

\* (variant) the accept error ends the loop, as `stream.unwrap()` would
AcceptErrStops ==
  /\ mainPc = "accept"
  /\ nacc < MaxConns
  /\ nacc' = nacc + 1
  /\ conn' = [conn EXCEPT ![nacc + 1].st = "accept_err"]
  /\ mainPc' = "stopped"
  /\ UNCHANGED <<bootVars, fnVars, nthreads, spawned, queue, lock, pc,
                 stream, buf, uid>>

\* Err(e) => println!("Unable to connect: {}", e)
AcceptErr ==
  /\ mainPc = "accept"
  /\ nacc < MaxConns
  /\ nacc' = nacc + 1
  /\ conn' = [conn EXCEPT ![nacc + 1].st = "accept_err"]
  /\ mainPc' = "accept"
  /\ UNCHANGED <<bootVars, fnVars, nthreads, spawned, queue, lock, pc,
                 stream, buf, uid>>

\* (variant) main gives its own handle of the receiver away once the
\* workers are spawned (the last worker gets `rx` itself, not a clone)
MainMovesRx == mainPc = "spawn"

\* main's `rx` of line 18, the Arc around the Receiver, is a local of main:
\* it lives until main returns
MainHoldsRx == mainPc \in {"spawn", "accept"}

\* the owners of a clone of that Arc: main (NoWorker stands for it) and
\* every worker task that has been spawned and has not ended
RxHolders ==
  (IF MainHoldsRx THEN {NoWorker} ELSE {})
    \cup {w \in Workers : pc[w] \notin {"unspawned", "dead", "done"}}

\* the Receiver is dropped with the last Arc around it
ReceiverAlive == RxHolders # {}

\* the spawned task: tx.send(stream).unwrap().  send fails only when the
\* Receiver is gone: the unwrap then panics and the stream is dropped with
\* the task ("lost")
EnqueueSend(c) ==
  /\ conn[c].st = "pending"
  /\ FreeThread
  /\ IF ReceiverAlive
     THEN /\ queue' = Append(queue, c)
          /\ conn' = [conn EXCEPT ![c].st = "queued"]
     ELSE /\ queue' = queue
          /\ conn' = [conn EXCEPT ![c].st = "lost"]
  /\ UNCHANGED <<bootVars, fnVars, nthreads, mainPc, spawned, nacc, lock, pc,
                 stream, buf, uid>>

(***************************************************************************)
(* worker                                                                  *)
(***************************************************************************)
\* the MutexGuard is a temporary of the scrutinee of `while let`: it is
\* dropped at the end of the loop body, not when recv() returns
LockAfterRecv(w) == lock

\* the end of one iteration of the loop body, by return or by unwinding
LockAfterBody(w) == NoWorker

\* (variant) a worker that calls recv() on the receiver without the lock
WorkerLockNoMutex(w) ==
  /\ pc[w] = "loop"
  /\ FreeThread
  /\ lock' = w
  /\ pc' = [pc EXCEPT ![w] = "recv"]
  /\ UNCHANGED <<bootVars, fnVars, nthreads, mainPc, spawned, nacc, conn,
                 queue, stream, buf, uid>>

\* rx.lock().await
WorkerLock(w) ==
  /\ pc[w] = "loop"
  /\ lock = NoWorker
  /\ FreeThread
  /\ lock' = w
  /\ pc' = [pc EXCEPT ![w] = "recv"]
  /\ UNCHANGED <<bootVars, fnVars, nthreads, mainPc, spawned, nacc, conn,
                 queue, stream, buf, uid>>

\* (variant) a receive that hands out the head and leaves it in the channel
QueueAfterPeek(q) == q

\* what recv() leaves in the channel
QueueAfterRecv(q) == Tail(q)

\* .recv() returns Ok(stream); handle_connection(stream, ..) starts
WorkerRecv(w) ==
  /\ pc[w] = "recv"
  /\ queue # << >>
  /\ LET c == Head(queue)
     IN  /\ stream' = [stream EXCEPT ![w] = c]
         /\ conn' = [conn EXCEPT ![c].st = "handling",
                                 ![c].delivered = @ + 1]
  /\ queue' = QueueAfterRecv(queue)
  /\ lock' = LockAfterRecv(w)
  /\ pc' = [pc EXCEPT ![w] = "read"]
  /\ UNCHANGED <<bootVars, fnVars, nthreads, mainPc, spawned, nacc, buf,
                 uid>>

\* (variant) a send_response that sends again after a failed write
send_response_retry(cn, c, rsp, wok) ==
  [cn EXCEPT ![c].resp = IF wok THEN Append(@, rsp)
                         ELSE Append(Append(@, rsp), rsp),
             ![c].st = "closed"]

\* send_response(stream, resp): one write_all (wok: whether it succeeded; a
\* failure is printed and changes nothing else), a flush, and the stream is
\* dropped
send_response(cn, c, rsp, wok) ==
  [cn EXCEPT ![c].resp = Append(@, rsp), ![c].st = "closed"]

\* handle_connection ends without a response: the stream is dropped
CloseSilently(cn, c) == [cn EXCEPT ![c].dropped = TRUE, ![c].st = "closed"]

\* handle_connection has returned to the loop of worker
BackToLoop(w, cn, c) ==
  /\ conn' = [cn EXCEPT ![c].end = "returned"]
  /\ pc' = [pc EXCEPT ![w] = "loop"]
  /\ lock' = LockAfterBody(w)
  /\ stream' = [stream EXCEPT ![w] = NoConn]
  /\ buf' = [buf EXCEPT ![w] = NoBuf]
  /\ uid' = [uid EXCEPT ![w] = NoUid]

\* handle_connection panicked: the task of worker w is over
TaskPanics(w, cn, c) ==
  /\ conn' = [cn EXCEPT ![c].end = "panicked"]
  /\ pc' = [pc EXCEPT ![w] = "dead"]
  /\ lock' = LockAfterBody(w)
  /\ stream' = [stream EXCEPT ![w] = NoConn]
  /\ buf' = [buf EXCEPT ![w] = NoBuf]
  /\ uid' = [uid EXCEPT ![w] = NoUid]

\* Err(e) => println!("Unable to read stream: {}", e)
HandleReadErr(w) ==
  /\ pc[w] = "read"
  /\ BackToLoop(w, CloseSilently(conn, stream[w]), stream[w])
  /\ UNCHANGED <<bootVars, fnVars, nthreads, mainPc, spawned, nacc, queue>>

\* match stream.read(&mut buf) { Ok(_) => ..
HandleRead(w) ==
  /\ pc[w] = "read"
  /\ \E data \in Requests : buf' = [buf EXCEPT ![w] = ReadInto(data)]
  /\ pc' = [pc EXCEPT ![w] = "decode"]
  /\ UNCHANGED <<bootVars, fnVars, nthreads, mainPc, spawned, nacc, conn,
                 queue, lock, stream, uid>>

\* the body of the Ok(_) arm, up to its first await or its end
HandleDecode(w) ==
  /\ pc[w] = "decode"
  /\ LET c == stream[w]
         d == Decode(buf[w])
     IN  \/ /\ d.kind = "return"
            /\ BackToLoop(w, CloseSilently(conn, c), c)
         \/ /\ d.kind = "panic"
            /\ TaskPanics(w, CloseSilently(conn, c), c)
         \/ /\ d.kind = "respond"
            /\ \E wok \in BOOLEAN :
                 BackToLoop(w, send_response(conn, c, d.rsp, wok), c)
         \/ /\ d.kind = "get"
            /\ pc' = [pc EXCEPT ![w] = "store_get"]
            /\ uid' = [uid EXCEPT ![w] = d.uid]
            /\ buf' = [buf EXCEPT ![w] = NoBuf]
            /\ UNCHANGED <<conn, lock, stream>>
         \/ /\ d.kind = "health"
            /\ pc' = [pc EXCEPT ![w] = "store_health"]
            /\ buf' = [buf EXCEPT ![w] = NoBuf]
            /\ UNCHANGED <<conn, lock, stream, uid>>
  /\ UNCHANGED <<bootVars, fnVars, nthreads, mainPc, spawned, nacc, queue>>

\* sqlx .. fetch_one(pool).await returns: Ok with the row, or Err (no such
\* row, or the store failed)
StoreReturn(w) ==
  /\ pc[w] \in {"store_get", "store_health"}
  /\ FreeThread
  /\ \E fault \in BOOLEAN, wok \in BOOLEAN :
       LET c == stream[w]
           rsp == StoreAnswer(pc[w], uid[w], fault)
       IN  BackToLoop(w, send_response(conn, c, rsp, wok), c)
  /\ UNCHANGED <<bootVars, fnVars, nthreads, mainPc, spawned, nacc, queue>>

\* the store never answers: the await never completes
StoreHang(w) ==
  /\ pc[w] \in {"store_get", "store_health"}
  /\ pc' = [pc EXCEPT ![w] = "hung"]
  /\ UNCHANGED <<bootVars, fnVars, nthreads, mainPc, spawned, nacc, conn,
                 queue, lock, stream, buf, uid>>

Next ==
  \/ MainSpawn
  \/ AcceptOk
  \/ AcceptErr
  \/ \E c \in Conns : EnqueueSend(c)
  \/ \E w \in Workers : WorkerLock(w)
  \/ \E w \in Workers : WorkerRecv(w)
  \/ \E w \in Workers : HandleReadErr(w)
  \/ \E w \in Workers : HandleRead(w)
  \/ \E w \in Workers : HandleDecode(w)
  \/ \E w \in Workers : StoreReturn(w)
  \/ \E w \in Workers : StoreHang(w)

Spec == Init /\ [][Next]_vars

(***************************************************************************)
(* The worker pool on a channel whose senders go away: the `for` of line   *)
(* 28 ends, main returns and its `tx` is dropped; the clones the enqueue   *)
(* tasks hold are dropped as these end.  (listener.incoming() is           *)
(* documented never to end, so no behaviour of Spec gets here: this is the *)
(* case `while let Ok(..)` of worker provides for.)                        *)
(***************************************************************************)
\* main's `tx` of line 17 is a local of main: it lives until main returns
MainHoldsTx == mainPc \in {"startup", "spawn", "accept"}

\* all senders are dropped: main's, and the clone of every enqueue task
Closed ==
  /\ ~MainHoldsTx
  /\ \A c \in Conns : conn[c].st # "pending"

\* the iterator of line 28 yields None: main leaves the loop and returns
MainReturns ==
  /\ mainPc = "accept"
  /\ mainPc' = "returned"
  /\ UNCHANGED <<bootVars, fnVars, nthreads, spawned, nacc, conn, queue,
                 lock, pc, stream, buf, uid>>

\* .recv() returns Err (the channel is empty and every sender is gone): the
\* `while let` ends, the guard is dropped and worker returns
WorkerRecvClosed(w) ==
  /\ pc[w] = "recv"
  /\ queue = << >>
  /\ Closed
  /\ pc' = [pc EXCEPT ![w] = "done"]
  /\ lock' = LockAfterBody(w)
  /\ UNCHANGED <<bootVars, fnVars, nthreads, mainPc, spawned, nacc, conn,
                 queue, stream, buf, uid>>

CloseNext ==
  \/ Next
  \/ MainReturns
  \/ \E w \in Workers : WorkerRecvClosed(w)

CloseSpec == Init /\ [][CloseNext]_vars

(***************************************************************************)
(* parse_query_string and handle_connection taken on their own: a call     *)
(* with arguments drawn from the sets below, and its result.               *)
(***************************************************************************)
\* a fragment of a query string: `key`, or `key=val` when eq
FragKeys == {<<"a">>, <<"i", "d">>, << >>}
FragVals == {<<"1">>, <<"2">>, << >>, <<"a", "=", "b">>,
             <<"1", "?", "i", "d", "=", "5">>}

Frags ==
  [key : FragKeys, eq : {TRUE}, val : FragVals]
    \cup [key : FragKeys, eq : {FALSE}, val : {<< >>}]

FragText(f) == IF f.eq THEN f.key \o <<"=">> \o f.val ELSE f.key

RECURSIVE JoinFrom(_, _)
JoinFrom(frags, i) ==
  IF i > Len(frags)
  THEN << >>
  ELSE FragText(frags[i])
         \o (IF i < Len(frags) THEN <<"&">> ELSE << >>)
         \o JoinFrom(frags, i + 1)

\* the `query` argument: the second token of the request line, a path with
\* (mark) or without a '?' and the fragments after it
QueryText(a) ==
  <<"/", "g">> \o (IF a.mark THEN <<"?">> \o JoinFrom(a.frags, 1) ELSE << >>)

ParseCalls ==
  {[op |-> "parse", mark |-> TRUE, frags |-> fl] :
     fl \in UNION {[1..n -> Frags] : n \in 0..MaxFrags}}
    \cup {[op |-> "parse", mark |-> FALSE, frags |-> << >>]}

\* the requests: `G<sep><path><query> H`
ReqPaths == {RootPath, GetPath, HealthPath, <<"/", "x">>,
             <<"/", "g", "e", "t", "x">>}

\* a query suffix and the value of its id parameter (NoUid: it has none)
ReqQueries ==
  { [text |-> << >>, id |-> NoUid],
    [text |-> <<"?", "i", "d", "=", "5">>, id |-> <<"5">>],
    [text |-> <<"?", "i", "d", "=", "9">>, id |-> <<"9">>],
    [text |-> <<"?", "n", "=", "5">>, id |-> NoUid] }

HandleCalls ==
  [op : {"handle"}, sep : {" ", "LF"}, path : ReqPaths, query : ReqQueries,
   fault : BOOLEAN]

RequestOf(a) == <<"G", a.sep>> \o a.path \o a.query.text \o <<" ", "H">>

FnInit ==
  /\ fnArg \in ParseCalls \cup HandleCalls
  /\ fnRes = NoRes
  /\ store = ReadyStore
  /\ boot = ReadyRun
  /\ nthreads = 1
  /\ mainPc = "spawn"
  /\ spawned = 0
  /\ nacc = 0
  /\ conn = [c \in Conns |-> NewConn]
  /\ queue = << >>
  /\ lock = NoWorker
  /\ pc = [w \in Workers |-> "unspawned"]
  /\ stream = [w \in Workers |-> NoConn]
  /\ buf = [w \in Workers |-> NoBuf]
  /\ uid = [w \in Workers |-> NoUid]

CallParse ==
  /\ fnArg.op = "parse"
  /\ ~fnRes.done
  /\ fnRes' = [done |-> TRUE, val |-> parse_query_string(QueryText(fnArg))]
  /\ UNCHANGED <<bootVars, fnArg, nthreads, mainPc, spawned, nacc, conn,
                 queue, lock, pc, stream, buf, uid>>

CallHandle ==
  /\ fnArg.op = "handle"
  /\ ~fnRes.done
  /\ fnRes' = [done |-> TRUE,
               val |-> handle_connection(RequestOf(fnArg), fnArg.fault)]
  /\ UNCHANGED <<bootVars, fnArg, nthreads, mainPc, spawned, nacc, conn,
                 queue, lock, pc, stream, buf, uid>>

FnNext == CallParse \/ CallHandle

FnSpec == FnInit /\ [][FnNext]_vars

(***************************************************************************)
(* The startup of main (line 12-15) and new_conn, over runs of the process *)
(* on the same store file: a run may be interrupted anywhere, and the      *)
(* process started again.                                                  *)
(***************************************************************************)
\* the stores a first run may find: none, or one an earlier run has left:
\* with all its rows, with some of them, emptied, or without its table
InitialStores ==
  {NoStore}
    \cup {[exists |-> TRUE, table |-> TRUE,
           rows |-> SubSeq(SeededRows, 1, k), born |-> 0] : k \in 0..SeedRows}
    \cup {[exists |-> TRUE, table |-> FALSE, rows |-> << >>, born |-> 0]}

StartupInit ==
  /\ store \in InitialStores
  /\ boot = NewRun(1)
  /\ fnArg = NoCall
  /\ fnRes = NoRes
  /\ nthreads = 1
  /\ mainPc = "startup"
  /\ spawned = 0
  /\ nacc = 0
  /\ conn = [c \in Conns |-> NewConn]
  /\ queue = << >>
  /\ lock = NoWorker
  /\ pc = [w \in Workers |-> "unspawned"]
  /\ stream = [w \in Workers |-> NoConn]
  /\ buf = [w \in Workers |-> NoBuf]
  /\ uid = [w \in Workers |-> NoUid]

\* Sqlite::database_exists(path): whether the store file is there
database_exists(st) == st.exists

\* a panic of main or of new_conn (an unwrap of an Err): the process aborts
Abort(cause) ==
  /\ boot' = [boot EXCEPT !.pc = "aborted", !.cause = cause]
  /\ UNCHANGED <<store, fnVars, nthreads, mainPc, spawned, nacc, conn, queue,
                 lock, pc, stream, buf, uid>>

\* a step of the startup that leaves the store as it is
StartupTo(next) ==
  /\ boot' = [boot EXCEPT !.pc = next]
  /\ mainPc' = IF next = "ready" THEN "spawn" ELSE mainPc
  /\ UNCHANGED <<store, fnVars, nthreads, spawned, nacc, conn, queue, lock,
                 pc, stream, buf, uid>>

\* TcpListener::bind("127.0.0.1:8080") is Ok
BindOk ==
  /\ boot.pc = "bind"
  /\ StartupTo("exists")

\* TcpListener::bind(..).unwrap() on an Err
BindFails ==
  /\ boot.pc = "bind"
  /\ Abort("bind")

\* if !Sqlite::database_exists(path).await.unwrap_or(false)
DatabaseExists ==
  /\ boot.pc = "exists"
  /\ StartupTo(IF database_exists(store) THEN "connect" ELSE "create")

\* Sqlite::create_database(path).await is Ok; is_empty = true
CreateDatabaseOk ==
  /\ boot.pc = "create"
  /\ store' = [exists |-> TRUE, table |-> FALSE, rows |-> << >>,
               born |-> boot.run]
  /\ boot' = [boot EXCEPT !.pc = "connect", !.is_empty = TRUE]
  /\ UNCHANGED <<fnVars, nthreads, mainPc, spawned, nacc, conn, queue, lock,
                 pc, stream, buf, uid>>

\* Sqlite::create_database(path).await? on an Err: new_conn returns the
\* Err, and the unwrap of line 15 panics
CreateDatabaseFails ==
  /\ boot.pc = "create"
  /\ Abort("create")

\* SqlitePool::connect(path).await is Ok
ConnectOk ==
  /\ boot.pc = "connect"
  /\ StartupTo("table")

\* SqlitePool::connect(path).await.unwrap() on an Err
ConnectFails ==
  /\ boot.pc = "connect"
  /\ Abort("connect")

\* (variant) a bootstrap that seeds whenever table users has no rows
SeedWhenNoRows(b, st) == st.rows = << >>

\* if is_empty { .. }
SeedWanted(b, st) == b.is_empty

\* CREATE TABLE IF NOT EXISTS users ..; CREATE INDEX IF NOT EXISTS .. is Ok;
\* then the seeding loop, or Ok(pool) at once
CreateTableOk ==
  /\ boot.pc = "table"
  /\ store' = [store EXCEPT !.table = TRUE]
  /\ LET next == IF SeedWanted(boot, store) THEN "seed" ELSE "ready"
     IN  /\ boot' = [boot EXCEPT !.pc = next]
         /\ mainPc' = IF next = "ready" THEN "spawn" ELSE mainPc
  /\ UNCHANGED <<fnVars, nthreads, spawned, nacc, conn, queue, lock, pc,
                 stream, buf, uid>>

\* .execute(&pool).await? on an Err: new_conn returns the Err, and the
\* unwrap of line 15 panics
CreateTableFails ==
  /\ boot.pc = "table"
  /\ Abort("table")

\* one turn of `for i in 0..10000`: INSERT INTO users (name) VALUES
\* ("value" + i) is Ok; after the last one new_conn returns Ok(pool)
SeedInsertOk ==
  /\ boot.pc = "seed"
  /\ boot.i < SeedRows
  /\ store' = [store EXCEPT !.rows = Append(@, boot.i)]
  /\ LET next == IF boot.i + 1 = SeedRows THEN "ready" ELSE "seed"
     IN  /\ boot' = [boot EXCEPT !.pc = next, !.i = @ + 1]
         /\ mainPc' = IF next = "ready" THEN "spawn" ELSE mainPc
  /\ UNCHANGED <<fnVars, nthreads, spawned, nacc, conn, queue, lock, pc,
                 stream, buf, uid>>

\* the insert's .execute(&pool).await.unwrap() on an Err
SeedInsertFails ==
  /\ boot.pc = "seed"
  /\ Abort("insert")

\* the process is gone (aborted, or killed wherever it was) and is started
\* again: the store file is what outlives it
Restart ==
  /\ boot.run < MaxRuns
  /\ boot' = NewRun(boot.run + 1)
  /\ mainPc' = "startup"
  /\ spawned' = 0
  /\ pc' = [w \in Workers |-> "unspawned"]
  /\ UNCHANGED <<store, fnVars, nthreads, nacc, conn, queue, lock, stream,
                 buf, uid>>

StartupNext ==
  \/ BindOk
  \/ BindFails
  \/ DatabaseExists
  \/ CreateDatabaseOk
  \/ CreateDatabaseFails
  \/ ConnectOk
  \/ ConnectFails
  \/ CreateTableOk
  \/ CreateTableFails
  \/ SeedInsertOk
  \/ SeedInsertFails
  \/ MainSpawn
  \/ Restart

StartupSpec == StartupInit /\ [][StartupNext]_vars

(***************************************************************************)
(* What keeps the pipeline moving: a task that the runtime can poll (an    *)
(* enqueue task, a worker at rx.lock(), a worker whose store call has      *)
(* returned), a recv() that can return, or a worker that is running the    *)
(* synchronous part of handle_connection.                                  *)
(***************************************************************************)
SchedStep ==
  \/ \E c \in Conns : EnqueueSend(c)
  \/ \E w \in Workers : WorkerLock(w) \/ WorkerRecv(w) \/ StoreReturn(w)

Running == \E w \in Workers : pc[w] \in {"read", "decode"}

(***************************************************************************)
(* Properties                                                              *)
(***************************************************************************)
TypeOK ==
  /\ nthreads \in 1..MaxThreads
  /\ mainPc \in {"startup", "spawn", "accept", "returned"}
  /\ spawned \in 0..NWorkers
  /\ nacc \in 0..MaxConns
  /\ lock \in Workers \cup {NoWorker}
  /\ \A w \in Workers :
       /\ pc[w] \in {"unspawned", "loop", "recv", "read", "decode",
                     "store_get", "store_health", "hung", "dead", "done"}
       /\ stream[w] \in Conns \cup {NoConn}
  /\ \A c \in Conns :
       conn[c].st \in {"none", "accept_err", "pending", "queued", "handling",
                       "closed", "lost"}

\* the worker is inside handle_connection
InHandler(w) ==
  pc[w] \in {"read", "decode", "store_get", "store_health", "hung"}

Hung == \E w \in Workers : pc[w] = "hung"

InQueue(c) == \E i \in 1..Len(queue) : queue[i] = c

\* the stream has been sent on the channel (whatever became of it since)
Sent(c) == conn[c].st \in {"queued", "handling", "closed"}

\* C1: no worker holds the receive lock of the channel while it runs
\* handle_connection.
C1_LockNotHeldInHandler == \A w \in Workers : InHandler(w) => lock # w

\* C2: a hung store call occupies only its own worker: while the store
\* call of one worker never returns, a connection in the queue and another
\* worker waiting at rx.lock() mean that some worker can go on to pull (so
\* the queued connection does not wait for the hung call).
C2_HungStoreOccupiesOnlyItsWorker ==
  \A w \in Workers :
    ( /\ pc[w] = "hung"
      /\ queue # << >>
      /\ \E v \in Workers : v # w /\ pc[v] = "loop" )
    => \E v \in Workers : (ENABLED WorkerLock(v)) \/ (ENABLED WorkerRecv(v))

\* C3: a connection is delivered to at most one handle_connection call, no
\* two workers own the same connection, and a connection that has been
\* pulled is no longer in the queue.
C3_DeliveredAtMostOnce ==
  /\ \A c \in Conns :
       /\ conn[c].delivered <= 1
       /\ conn[c].delivered >= 1 => ~InQueue(c)
       /\ Cardinality({i \in 1..Len(queue) : queue[i] = c}) <= 1
  /\ \A w1, w2 \in Workers :
       w1 # w2 /\ stream[w1] # NoConn => stream[w1] # stream[w2]

C3_Witness ==
  \E c1, c2 \in Conns :
    /\ conn[c1].delivered = 1
    /\ conn[c2].delivered = 1
    /\ conn[c1].st = "closed"
    /\ \E w \in Workers : stream[w] = c2 /\ pc[w] = "store_get"
    /\ \E v \in Workers : pc[v] = "loop"

\* C4: at most one response is sent to a connection (send_response is
\* called at most once for it); a connection never has both a response
\* and a silent drop; a handler that has returned has either sent exactly
\* one response or dropped the connection silently, and a handler that has
\* not returned normally has sent none.
C4_AtMostOneResponse ==
  \A c \in Conns :
    /\ Len(conn[c].resp) <= 1
    /\ ~(conn[c].dropped /\ conn[c].resp # << >>)
    /\ conn[c].end = "returned" => (conn[c].dropped <=> conn[c].resp = << >>)
    /\ conn[c].end # "returned" => conn[c].resp = << >>

C4_Witness ==
  \E c1, c2 \in Conns :
    /\ conn[c1].end = "returned" /\ conn[c1].resp = <<BadRequest>>
    /\ conn[c2].end = "returned" /\ conn[c2].dropped

\* C5: every accepted connection eventually reaches its outcome when
\* store calls and reads return.  As a statement a finite run refutes: while
\* an accepted connection has not reached its outcome and no store call
\* hangs, a worker is running its handler or some task of the runtime can
\* take a step (the pipeline is never stuck with a connection unserved).
\* Stated for runtimes of two or more executor threads, where no blocking
\* call can keep every thread.
C5_EveryConnectionServed ==
  ( /\ nthreads >= 2
    /\ ~Hung
    /\ \E c \in Conns : conn[c].st \in {"pending", "queued", "handling"} )
  => Running \/ ENABLED SchedStep

\* C6: no request ends a worker: every spawned worker is alive in every
\* reachable state.
C6_WorkersNeverDie == \A w \in Workers : pc[w] # "dead"

\* C7: when the buffer decodes to fewer than two whitespace-separated
\* tokens, handle_connection sends no response and returns normally to the
\* loop of its worker.
C7_MalformedIsSilentDrop ==
  [][\A w \in Workers :
       ( /\ pc[w] = "decode"
         /\ Len(SplitWhitespace(FromUtf8Lossy(buf[w]))) < 2
         /\ pc'[w] # "decode" )
       => ( /\ pc'[w] = "loop"
            /\ conn'[stream[w]].resp = << >>
            /\ conn'[stream[w]].end = "returned" )]_vars

\* C8: connections are put on the channel in the order they were accepted:
\* no connection has been sent while one accepted before it is still to be
\* sent, and the queue holds them in acceptance order.  Stated for runtimes
\* of two or more executor threads, where two enqueue tasks can run at once.
C8_EnqueuedInAcceptanceOrder ==
  nthreads >= 2 =>
    /\ \A c1, c2 \in Conns :
         c1 < c2 /\ conn[c1].st = "pending" => ~Sent(c2)
    /\ \A i, j \in 1..Len(queue) : i < j => queue[i] < queue[j]

\* C9: a worker waiting in recv suspends only its own task: while a worker
\* waits on the empty channel, the enqueue task of every accepted
\* connection can still run.
C9_WaitingWorkerSuspendsOnlyItself ==
  \A c \in Conns :
    ( /\ conn[c].st = "pending"
      /\ \E w \in Workers : pc[w] = "recv" /\ queue = << >> )
    => ENABLED EnqueueSend(c)

\* C10: once the accept loop runs it never ends, and its next accept step
\* (a connection or an accept error) never waits for a worker, the receive
\* lock, a free thread or the queue.
C10_AcceptorNeverBlocked ==
  /\ [][mainPc = "accept" => mainPc' = "accept"]_vars
  /\ [](mainPc = "accept" /\ nacc < MaxConns
          => (ENABLED AcceptOk) /\ (ENABLED AcceptErr))

C10_Witness ==
  /\ mainPc = "accept"
  /\ \E c1, c2 \in Conns :
       c1 < c2 /\ conn[c1].st = "accept_err" /\ conn[c2].st = "pending"
  /\ ~FreeThread

\* C11: at most one worker is inside recv() on the shared receiver in any
\* reachable state, and the worker inside it is the one holding the lock.
C11_AtMostOneInRecv ==
  /\ Cardinality({w \in Workers : pc[w] = "recv"}) <= 1
  /\ \A w \in Workers : pc[w] = "recv" => lock = w

C11_Witness ==
  \E w, v \in Workers :
    /\ pc[w] = "recv" /\ lock = w
    /\ v # w /\ pc[v] = "loop"
    /\ queue # << >>
    /\ FreeThread

\* C17: exactly NWorkers workers are started, once, and all of them before
\* the first connection is accepted: no connection has been accepted or
\* enqueued while fewer than NWorkers workers are spawned, the accept loop
\* runs only with all of them spawned, and no worker is spawned afterwards.
C17_WorkersSpawnedBeforeAccept ==
  /\ [](/\ spawned <= NWorkers
        /\ {w \in Workers : pc[w] # "unspawned"} = 1..spawned
        /\ mainPc = "accept" => spawned = NWorkers
        /\ ( \/ nacc > 0
             \/ queue # << >>
             \/ \E c \in Conns : conn[c].st # "none" ) => spawned = NWorkers)
  /\ [][/\ mainPc = "accept" => spawned' = spawned
        /\ \A w \in Workers : pc[w] # "unspawned" => pc'[w] # "unspawned"
        /\ \A w \in Workers :
             pc[w] = "unspawned" /\ pc'[w] # "unspawned"
               => pc'[w] = "loop" /\ spawned' = spawned + 1]_vars

C17_Witness ==
  /\ spawned = NWorkers
  /\ nacc = MaxConns
  /\ \E c \in Conns : conn[c].st = "queued"
  /\ \E w \in Workers : pc[w] = "dead"

\* C20: the hand-off send never fails: whenever an enqueue task is still to
\* run its tx.send the receiver exists (however many workers are alive), no
\* connection is ever lost by a failed send, and every accepted connection
\* that has been sent is in the queue or has been delivered.
C20_SendNeverFails ==
  \A c \in Conns :
    /\ conn[c].st = "pending" => ReceiverAlive
    /\ conn[c].st # "lost"
    /\ conn[c].st = "queued" <=> InQueue(c)
    /\ conn[c].st \in {"handling", "closed"} => conn[c].delivered = 1

C20_Witness ==
  /\ \A w \in Workers : pc[w] = "dead"
  /\ \E c \in Conns : conn[c].st = "queued"
  /\ RxHolders = {NoWorker}

\* C12: for every request with a path token the response is the route
\* table's function of the path token cut at its first '?', of whether the
\* request has an id parameter (a parameter of the second token of the
\* request line) and of the store's answer: "/" -> 200 Hola whatever the
\* query; "/get" with an id -> 200 with the row's name and id when the store
\* answers with a row of that id, 400 when there is no such row or the store
\* fails; "/health" -> 200 Healthy when the probe succeeds, 500 UnHealthy
\* when it fails; any other path -> 400.
C12_RouteTable ==
  ( fnArg.op = "handle" /\ fnRes.done )
  => LET a == fnArg
         r == fnRes.val
         hasId == a.sep = " " /\ a.query.id # NoUid
         rows == {u \in Users : u.id = a.query.id}
     IN  /\ r.end = "returned"
         /\ a.path = RootPath => r.resp = <<Hola>>
         /\ ( a.path = GetPath /\ hasId /\ ~a.fault /\ rows # {} )
              => \E u \in rows : r.resp = <<UserFound(u)>>
         /\ ( a.path = GetPath /\ hasId /\ (a.fault \/ rows = {}) )
              => r.resp = <<BadRequest>>
         /\ a.path = HealthPath
              => r.resp = <<IF a.fault THEN UnHealthy ELSE Healthy>>
         /\ a.path \notin {RootPath, GetPath, HealthPath}
              => r.resp = <<BadRequest>>
         /\ Hola.status = 200 /\ Healthy.status = 200
         /\ UnHealthy.status = 500 /\ BadRequest.status = 400
         /\ \A u \in Users : UserFound(u).status = 200

C12_Witness ==
  /\ fnArg.op = "handle" /\ fnRes.done
  /\ fnArg.path = GetPath /\ fnArg.sep = " "
  /\ fnArg.query.id = <<"5">> /\ ~fnArg.fault
  /\ fnRes.val.resp = <<UserFound([id |-> <<"5">>, name |-> "value4"])>>
  /\ fnRes.val.store = "lookup"

\* C13: a request routed to "/get" whose query has no id key gets the 400
\* response and makes no store call, whatever else the query carries and
\* however the store would have answered.
C13_GetWithoutIdNoStore ==
  ( /\ fnArg.op = "handle" /\ fnRes.done
    /\ fnArg.path = GetPath
    /\ fnArg.query.id = NoUid )
  => /\ fnRes.val.resp = <<BadRequest>>
     /\ fnRes.val.store = "none"
     /\ fnRes.val.end = "returned"

C13_Witness ==
  /\ fnArg.op = "handle" /\ fnRes.done
  /\ fnArg.path = GetPath /\ fnArg.sep = " "
  /\ fnArg.query.text = <<"?", "n", "=", "5">> /\ fnArg.fault
  /\ fnRes.val.resp = <<BadRequest>>
  /\ fnRes.val.store = "none"

\* C14: for a query whose fragments are each `k=v` (k and v not empty, no
\* '=' or '?' in v) or have no '=', parse_query_string returns the mapping
\* whose keys are the keys of the `k=v` fragments, each mapped to the value
\* of its last occurrence; fragments with no '=' contribute nothing.  So
\* `id=1&id=2` binds id 2.
C14_ParseLastWins ==
  ( /\ fnArg.op = "parse" /\ fnRes.done
    /\ \A i \in 1..Len(fnArg.frags) :
         fnArg.frags[i].eq =>
           /\ fnArg.frags[i].key # << >>
           /\ fnArg.frags[i].val # << >>
           /\ \A k \in 1..Len(fnArg.frags[i].val) :
                fnArg.frags[i].val[k] \notin {"=", "?"} )
  => LET fr == fnArg.frags
         m == fnRes.val
         keyed == {i \in 1..Len(fr) : fr[i].eq}
     IN  /\ DOMAIN m = {fr[i].key : i \in keyed}
         /\ \A i \in keyed :
              (\A j \in keyed : j > i => fr[j].key # fr[i].key)
                => m[fr[i].key] = fr[i].val

C14_Witness ==
  /\ fnArg.op = "parse" /\ fnRes.done
  /\ fnArg.frags = <<[key |-> IdKey, eq |-> TRUE, val |-> <<"1">>],
                     [key |-> IdKey, eq |-> TRUE, val |-> <<"2">>]>>
  /\ fnRes.val = [k \in {IdKey} |-> <<"2">>]

\* C18: the query string is everything after the first '?' of the token,
\* each '&'-separated fragment is split at its first '=' only (the value is
\* all the text after it, a further '=' or '?' included), and a fragment
\* with no key or no value is skipped.
C18_SplitAtFirstMarkOnly ==
  ( fnArg.op = "parse" /\ fnRes.done )
  => LET fr == fnArg.frags
         m == fnRes.val
         kept == {i \in 1..Len(fr) :
                    fr[i].eq /\ fr[i].key # << >> /\ fr[i].val # << >>}
     IN  /\ DOMAIN m = {fr[i].key : i \in kept}
         /\ \A i \in kept :
              (\A j \in kept : j > i => fr[j].key # fr[i].key)
                => m[fr[i].key] = fr[i].val

\* C15: new_conn seeds only a store it has just created and startup is
\* idempotent across restarts: when new_conn returns Ok in the run that
\* created the store, users holds exactly the SeedRows rows value0 ..
\* value(SeedRows-1); the seeding loop runs only in the run that created
\* the store; and no step of a run on a store that an earlier run created
\* (whether populated, emptied or partially seeded) changes its rows.
C15_SeedOnlyFreshStore ==
  /\ [](/\ ( boot.pc = "ready" /\ store.exists /\ store.born = boot.run )
             => store.rows = SeededRows
        /\ boot.pc = "seed" => store.exists /\ store.born = boot.run
        /\ boot.pc = "ready" => store.exists /\ store.table)
  /\ [][( store.exists /\ store.born # boot.run )
          => store'.rows = store.rows /\ store'.exists]_vars

C15_Witness ==
  /\ boot.run >= 2
  /\ boot.pc = "ready"
  /\ store.born >= 1 /\ store.born < boot.run
  /\ Len(store.rows) > 0 /\ Len(store.rows) < SeedRows

\* C16: a failed bind is the only startup failure that aborts the process,
\* and it aborts it before any worker is spawned; no failure of the store
\* during startup aborts it.
C16_OnlyBindFailureAborts ==
  /\ boot.pc = "aborted" => boot.cause = "bind"
  /\ ( boot.pc = "aborted" /\ boot.cause = "bind" ) => spawned = 0

=============================================================================
